---- MODULE Spec2Model ----
(***************************************************************************)
(* Pyvolt: the rate-limit aware HTTP dispatcher (pyvolt/http.py), its      *)
(* login operation, and the bit-flag abstraction (pyvolt/models/flags.py). *)
(*                                                                         *)
(* Scheduling is asyncio's: one task runs at a time and is only suspended  *)
(* at an await that really blocks, so one action is the code a task runs   *)
(* between two suspension points.                                          *)
(***************************************************************************)
EXTENDS Integers, Sequences, FiniteSets, TLC

\* ---------------------------------------------------------------- bounds
NumTasks == 3
NumBuckets == 2

Tasks == 1..NumTasks
Buckets == 1..NumBuckets

\* ------------------------------------------------------ program constants
\* for tries in range(6)
OneMoreTry == 5 + 1

\* for tries in range(5)
MaxTries == 5
\* e.errno in (54, 10054): connection reset by peer
ResetErrnos == {54, 10054}

None == 0

VARIABLES
    global_over,   \* HTTPClient._global_over: TRUE when the Event is set
    locked,        \* Lock._locked of the Lock that _locks holds for each bucket
    waiters,       \* Lock._waiters of that Lock, oldest first
    ready,         \* tasks whose awaited future (gate or lock) has its result
    token,         \* HTTPClient.token
    pc,            \* where each task is suspended
    op,            \* what each task runs: "request" or "static_login"
    stage,         \* static_login: 0 none, 1 get_api_info, 2 GET /users/@me
    bucket,        \* request: route.bucket
    tries,         \* request: the loop variable
    status,        \* request: response.status, None while response is None
    data,          \* request: the decoded body, [kind, body]
    is_global,     \* request: is_global of the 429 being slept on
    outcome,       \* how the task's call ended: [kind, status, value]
    old_token,     \* static_login: old_token
    new_token,     \* static_login: the token argument
    token_before,  \* log: HTTPClient.token when static_login was called
    trace,         \* whether the observation logs below are recorded
    attempts,      \* log: number of HTTP requests each task has issued
    sleeps,        \* log: durations of the sleeps each task has started
    log,           \* log: what each HTTP request ended with, in order
    stalled,       \* log: tasks that found the gate closed, until it is set
    used,          \* log: how many buckets have been used so far
    args,          \* send_message, upload_file: the arguments of the call
    payload,       \* send_message: payload
    attachment_ids,\* send_message: attachment_ids
    uploads,       \* log: the files posted by upload_file and the ids answered
    inverted,      \* flags: whether the flag set was declared inverted
    value,         \* flags: BaseFlags.value of the instance, if there is one
    other,         \* flags: BaseFlags.value of a second instance
    error,         \* flags: the exception the last flags operation raised
    kwargs,        \* log: the keywords the instance was constructed with
    other_kwargs,  \* log: the keywords the second instance was constructed with
    written        \* log: the last write of a flag, [name, toggle, before]

\* The state of the message operations and of the flag sets, which the
\* dispatcher does not touch.
msgvars == <<args, payload, attachment_ids, uploads>>
flagvars == <<inverted, value, other, error, kwargs, other_kwargs, written>>

\* The state of the client and of the tasks that call it.
reqvars == <<global_over, locked, waiters, ready, token, pc, op, stage,
             bucket, tries, status, data, is_global, outcome, old_token,
             new_token, token_before, trace, attempts, sleeps, log, stalled, used>>

vars == <<reqvars, msgvars, flagvars>>

\* ------------------------------------------------------------- responses
NoData == [kind |-> "none", body |-> 0]
NoOutcome == [kind |-> "none", status |-> 0, value |-> NoData]

\* A response of the service: status, whether the Via header is present, the
\* content-type header ("missing" when absent), and for a 429 body its
\* "global" key ("absent" when the key is missing) and retry_after.
Response(s, via, ctype, glob, ra, body) ==
    [status |-> s, via |-> via, ctype |-> ctype, glob |-> glob,
     retry_after |-> ra, body |-> body]

\* An outcome of the HTTP call that is an OSError instead of a response.
ConnError(errno) == [status |-> None, errno |-> errno]

json_or_text(r) ==
    IF r.ctype = "application/json"
    THEN [kind |-> "dict", body |-> r.body]
    ELSE [kind |-> "str", body |-> r.body]

\* data.get('global', True): a missing key read as a global limit
GetGlobalDefaultTrue(r) == IF r.glob = "absent" THEN TRUE ELSE r.glob = "true"

\* data.get('global', False), as a truth value
GetGlobal(r) == IF r.glob = "absent" THEN FALSE ELSE r.glob = "true"

\* A 429 told from its body alone, without looking at the Via header
ProxyBlockBodyOnly(r, d) == d.kind = "str"

\* if not response.headers.get('Via') or isinstance(data, str): the 429 comes
\* from a proxy in front of the service, not from the service
ProxyBlock(r, d) == ~r.via \/ d.kind = "str"

\* 503 retried as well
RetriedWith503 == {500, 502, 503, 504}

\* if response.status in {500, 502, 504}: the statuses retried with a backoff
Retried == {500, 502, 504}

\* What one iteration of the retry loop does with a response.
HandleResponse(r, n) ==
    LET d == json_or_text(r) IN
    IF 300 > r.status /\ r.status >= 200
    THEN [do |-> "return", kind |-> "returned", dur |-> 0, glob |-> FALSE]
    ELSE IF r.status = 429
    THEN IF ProxyBlock(r, d)
         THEN [do |-> "raise", kind |-> "HTTPException", dur |-> 0, glob |-> FALSE]
         ELSE [do |-> "sleep", kind |-> "ratelimit", dur |-> r.retry_after,
               glob |-> GetGlobal(r)]
    ELSE IF r.status \in Retried
    THEN [do |-> "sleep", kind |-> "backoff", dur |-> 1 + n * 2, glob |-> FALSE]
    ELSE IF r.status = 403
    THEN [do |-> "raise", kind |-> "Forbidden", dur |-> 0, glob |-> FALSE]
    ELSE IF r.status = 404
    THEN [do |-> "raise", kind |-> "NotFound", dur |-> 0, glob |-> FALSE]
    ELSE IF r.status >= 500
    THEN [do |-> "raise", kind |-> "RevoltServerError", dur |-> 0, glob |-> FALSE]
    ELSE [do |-> "raise", kind |-> "HTTPException", dur |-> 0, glob |-> FALSE]

\* Every OSError retried, whatever its errno
RetriesAnyOSError(e, n) ==
    IF n < 4
    THEN [do |-> "sleep", kind |-> "backoff", dur |-> 1 + n * 2, glob |-> FALSE]
    ELSE [do |-> "raise", kind |-> "OSError", dur |-> 0, glob |-> FALSE]

\* A reset retried on the last iteration as well
RetriesOnLastIteration(e, n) ==
    IF e.errno \in ResetErrnos
    THEN [do |-> "sleep", kind |-> "backoff", dur |-> 1 + n * 2, glob |-> FALSE]
    ELSE [do |-> "raise", kind |-> "OSError", dur |-> 0, glob |-> FALSE]

\* What one iteration of the retry loop does with an OSError.
HandleOSError(e, n) ==
    IF n < 4 /\ e.errno \in ResetErrnos
    THEN [do |-> "sleep", kind |-> "backoff", dur |-> 1 + n * 2, glob |-> FALSE]
    ELSE [do |-> "raise", kind |-> "OSError", dur |-> 0, glob |-> FALSE]

\* The raise after the loop has run out of iterations.
Exhausted(st) ==
    IF st # None
    THEN IF st >= 500 THEN "RevoltServerError" ELSE "HTTPException"
    ELSE "RuntimeError"

\* ------------------------------------------------------------------ locks
\* A lock taken whenever it is free, whoever waits for it
Barging(L, W, b) == ~L[b]

\* Lock.acquire takes the lock at once when it is free and nobody waits.
CanAcquire(L, W, b) == ~L[b] /\ W[b] = <<>>

\* await lock.acquire() by task t on lock states L, W: taken, or queued.
Acquire(L, W, t, b) ==
    IF CanAcquire(L, W, b)
    THEN [locked |-> [L EXCEPT ![b] = TRUE], waiters |-> W, got |-> TRUE]
    ELSE [locked |-> L, waiters |-> [W EXCEPT ![b] = Append(@, t)], got |-> FALSE]

\* Lock._wake_up_first on a queue q: the future that gets its result.
WakeFirst(q) == IF q = <<>> THEN {} ELSE {Head(q)}

\* MaybeUnlock._unlock: set in __init__, and request never calls defer().
unlock == TRUE

\* The lock released by a statement at the end of the block, which an
\* exception skips
ReleaseOnlyOnReturn(b, kind) ==
    IF kind = "returned" THEN [locked EXCEPT ![b] = FALSE] ELSE locked

\* MaybeUnlock.__exit__: the lock is released whatever ended the block.
MaybeUnlockExit(b, kind) == IF unlock THEN [locked EXCEPT ![b] = FALSE] ELSE locked

\* Lock.release as __exit__ runs it: the waiter woken, if the lock was released.
Woken(L, b) == IF ~L[b] THEN WakeFirst(waiters[b]) ELSE {}

Remove(q, t) == SelectSeq(q, LAMBDA x : x # t)

InLoop(t) == pc[t] \in {"http", "ratelimit_sleep", "backoff_sleep"}

\* A task holds a reference to its bucket's Lock while its request runs.
Referenced(b) ==
    \E t \in Tasks :
        bucket[t] = b /\ (InLoop(t) \/ pc[t] \in {"gate_wait", "lock_wait"})

\* A new Lock for every request, whatever the dictionary holds
LookupAlwaysNew(F, b, fresh, new) == [F EXCEPT ![b] = new]

\* lock = self._locks.get(bucket), and a new Lock when there is none. The
\* dictionary holds its Locks weakly: the Lock of a bucket that no running
\* request refers to may have been reclaimed (fresh) or may still be there.
\* F is locked or waiters and new its value in a new Lock; the result is F
\* as the request finds it.
Lookup(F, b, fresh, new) == IF fresh THEN [F EXCEPT ![b] = new] ELSE F

\* ------------------------------------------------------------------ errors
\* The error kinds that are HTTPException or one of its subclasses.
IsHTTPException(kind) ==
    kind \in {"HTTPException", "Forbidden", "NotFound", "RevoltServerError"}

\* The buckets of the two routes static_login uses: GET / and GET /users/@me.
BucketApiInfo == 1
BucketUsersMe == 2

\* ----------------------------------------------------------------- inputs
NumBodies == 2
Bodies == 1..NumBodies
RetryAfterValues == {2, 4}
Tokens == {1, 2}

Json == "application/json"

\* Responses of the service used where several dispatches run concurrently:
\* one that returns, one that is retried, and the two kinds of 429.  The
\* statuses that raise at once are followed in SpecRetry.
ConcResponses ==
    {Response(s, TRUE, Json, "absent", 0, 1) : s \in {200, 502}}
    \cup {Response(429, TRUE, Json, g, 2, 1) : g \in {"true", "false"}}

\* Responses of the service used where one dispatch is followed in detail.
AllResponses ==
    {Response(s, TRUE, c, "absent", 0, bd) :
        s \in {200, 204, 299}, c \in {Json, "text/html", "missing"}, bd \in Bodies}
    \cup {Response(s, TRUE, Json, "absent", 0, 1) :
        s \in {199, 300, 400, 401, 403, 404, 500, 501, 502, 503, 504, 599}}
    \cup {Response(429, v, c, g, ra, 1) :
        v \in BOOLEAN, c \in {Json, "text/html", "missing"},
        g \in {"true", "false", "absent"}, ra \in RetryAfterValues}

\* Responses used to follow a login.
LoginResponses ==
    {Response(s, TRUE, Json, "absent", 0, 1) : s \in {200, 400, 401, 403, 404, 500, 503}}
    \cup {Response(429, v, Json, g, ra, 1) :
        v \in BOOLEAN, g \in {"true", "false"}, ra \in RetryAfterValues}

\* The OSErrors of the HTTP call: the resets, and a refused connection (111).
ConnErrors == {ConnError(e) : e \in ResetErrnos \cup {111}}

\* ------------------------------------------------------------------- Init
NoArgs == [kind |-> "none"]
NoInstance == -1
NoError == [kind |-> "none", msg |-> ""]
NoWrite == [name |-> "", toggle |-> "", before |-> NoInstance]

\* No message operation has been called.
NoMessages ==
    /\ args = NoArgs
    /\ payload = [content |-> [has |-> FALSE, item |-> 0],
                  embeds |-> [has |-> FALSE, items |-> <<>>],
                  attachments |-> [has |-> FALSE, items |-> <<>>],
                  replies |-> [has |-> FALSE, items |-> <<>>],
                  masquerade |-> [has |-> FALSE, item |-> 0]]
    /\ attachment_ids = [has |-> FALSE, items |-> <<>>]
    /\ uploads = <<>>

\* No flag set has been constructed.
NoFlags ==
    /\ inverted = FALSE
    /\ value = NoInstance
    /\ other = NoInstance
    /\ error = NoError
    /\ kwargs = <<>>
    /\ other_kwargs = <<>>
    /\ written = NoWrite

InitWith(tr) ==
    /\ global_over = TRUE
    /\ locked = [b \in Buckets |-> FALSE]
    /\ waiters = [b \in Buckets |-> <<>>]
    /\ ready = {}
    /\ token \in {None} \cup Tokens
    /\ pc = [t \in Tasks |-> "idle"]
    /\ op = [t \in Tasks |-> "request"]
    /\ stage = [t \in Tasks |-> 0]
    /\ bucket = [t \in Tasks |-> None]
    /\ tries = [t \in Tasks |-> 0]
    /\ status = [t \in Tasks |-> None]
    /\ data = [t \in Tasks |-> NoData]
    /\ is_global = [t \in Tasks |-> FALSE]
    /\ outcome = [t \in Tasks |-> NoOutcome]
    /\ old_token = [t \in Tasks |-> None]
    /\ new_token = [t \in Tasks |-> None]
    /\ token_before = [t \in Tasks |-> None]
    /\ trace = tr
    /\ attempts = [t \in Tasks |-> 0]
    /\ sleeps = [t \in Tasks |-> <<>>]
    /\ log = [t \in Tasks |-> <<>>]
    /\ stalled = {}
    /\ used = 0

\* ------------------------------------------------------------ the request
\* The gate never looked at
NeverWaits == FALSE

\* if not self._global_over.is_set(): the request waits for the gate.
MustWait == ~global_over

Issued(t) == IF trace THEN [attempts EXCEPT ![t] = @ + 1] ELSE attempts
Slept(t, d) == IF trace THEN [sleeps EXCEPT ![t] = Append(@, d)] ELSE sleeps
Logged(t, r) == IF trace THEN [log EXCEPT ![t] = Append(@, r)] ELSE log

\* request, from its first line to its first suspension, by task t for bucket
\* b, with the locks in states L, W: the lock is looked up or created, the
\* gate is checked, the lock is acquired and the first HTTP request is issued.
\* S is the log `stalled` as the caller leaves it.
Begin(t, b, L, W, S) ==
    \E fresh \in BOOLEAN :
    LET L1 == Lookup(L, b, fresh, FALSE)
        W1 == Lookup(W, b, fresh, <<>>)
        a == Acquire(L1, W1, t, b) IN
    /\ Referenced(b) => ~fresh
    /\ bucket' = [bucket EXCEPT ![t] = b]
    /\ used' = IF b > used THEN b ELSE used
    /\ tries' = [tries EXCEPT ![t] = 0]
    /\ status' = [status EXCEPT ![t] = None]
    /\ data' = [data EXCEPT ![t] = NoData]
    /\ is_global' = [is_global EXCEPT ![t] = FALSE]
    /\ stalled' = IF ~global_over THEN S \cup {t} ELSE S
    /\ IF MustWait
       THEN /\ pc' = [pc EXCEPT ![t] = "gate_wait"]
            /\ locked' = L1
            /\ waiters' = W1
            /\ attempts' = attempts
       ELSE /\ pc' = [pc EXCEPT ![t] = IF a.got THEN "http" ELSE "lock_wait"]
            /\ locked' = a.locked
            /\ waiters' = a.waiters
            /\ attempts' = IF a.got THEN Issued(t) ELSE attempts

\* The attempted token left installed
NotRestored(t, kind) == token

\* The old token put back whatever ended the check, as a finally would
AlwaysRestored(t, kind) == old_token[t]

\* static_login, except HTTPException: self.token = old_token. The token that
\* is installed once the credential check has ended with `kind`.
AfterCheck(t, kind) == IF IsHTTPException(kind) THEN old_token[t] ELSE token

\* The call of task t ends with an exception of kind `kind` (or "returned")
\* carrying the response status st and the value val, the locks being left
\* in states L, W and the log `stalled` as S. A static_login goes on from
\* there.
Ended(t, kind, st, val, L, W, S) ==
    LET login == op[t] = "static_login" IN
    IF login /\ stage[t] = 1 /\ kind = "returned"
    THEN /\ old_token' = [old_token EXCEPT ![t] = token]
         /\ token' = new_token[t]
         /\ stage' = [stage EXCEPT ![t] = 2]
         /\ outcome' = outcome
         /\ Begin(t, BucketUsersMe, L, W, S)
    ELSE /\ pc' = [pc EXCEPT ![t] = "done"]
         /\ locked' = L
         /\ waiters' = W
         /\ token' = IF login /\ stage[t] = 2 THEN AfterCheck(t, kind) ELSE token
         /\ outcome' = [outcome EXCEPT ![t] =
                IF login /\ stage[t] = 2 /\ IsHTTPException(kind) /\ st = 401
                THEN [kind |-> "LoginFailure", status |-> st, value |-> NoData]
                ELSE [kind |-> kind, status |-> st, value |-> val]]
         /\ bucket' = [bucket EXCEPT ![t] = None]
         /\ tries' = [tries EXCEPT ![t] = 0]
         /\ status' = [status EXCEPT ![t] = None]
         /\ data' = [data EXCEPT ![t] = NoData]
         /\ is_global' = [is_global EXCEPT ![t] = FALSE]
         /\ stalled' = S
         /\ UNCHANGED <<stage, old_token, attempts, used>>

\* A task calls request for a route of bucket b.
Request(t, b) ==
    /\ pc[t] = "idle"
    /\ UNCHANGED <<msgvars, flagvars>>
    \* tasks and bucket keys are interchangeable: tasks are numbered in the
    \* order they call request, bucket keys in the order they are first used
    /\ \A u \in Tasks : u < t => pc[u] # "idle"
    /\ b <= used + 1
    /\ op' = [op EXCEPT ![t] = "request"]
    /\ Begin(t, b, locked, waiters, stalled)
    /\ UNCHANGED <<global_over, ready, token, stage, outcome, old_token,
                   new_token, token_before, trace, sleeps, log>>

\* The gate was set while the task waited on it: it goes on to the lock.
GateWake(t) ==
    /\ pc[t] = "gate_wait"
    /\ UNCHANGED <<msgvars, flagvars>>
    /\ t \in ready
    /\ ready' = ready \ {t}
    /\ LET a == Acquire(locked, waiters, t, bucket[t]) IN
        /\ pc' = [pc EXCEPT ![t] = IF a.got THEN "http" ELSE "lock_wait"]
        /\ locked' = a.locked
        /\ waiters' = a.waiters
        /\ attempts' = IF a.got THEN Issued(t) ELSE attempts
    /\ UNCHANGED <<global_over, token, op, stage, bucket, tries, status,
                   data, is_global, outcome, old_token, new_token, token_before, trace,
                   sleeps, log, stalled, used>>

\* The lock was released to the waiting task: it takes it and issues its
\* first HTTP request.
LockWake(t) ==
    /\ pc[t] = "lock_wait"
    /\ UNCHANGED <<msgvars, flagvars>>
    /\ t \in ready
    /\ ready' = ready \ {t}
    /\ waiters' = [waiters EXCEPT ![bucket[t]] = Remove(@, t)]
    /\ locked' = [locked EXCEPT ![bucket[t]] = TRUE]
    /\ pc' = [pc EXCEPT ![t] = "http"]
    /\ attempts' = Issued(t)
    /\ UNCHANGED <<global_over, token, op, stage, bucket, tries, status,
                   data, is_global, outcome, old_token, new_token, token_before, trace,
                   sleeps, log, stalled, used>>

\* The gate never set again
NeverReopens(t) == FALSE

\* if is_global: self._global_over.set(), after the retry_after sleep
ReopensGate(t) == is_global[t]

\* The loop body goes to sleep for what handling h says.
Sleep(t, h) ==
    /\ pc' = [pc EXCEPT ![t] =
            IF h.kind = "ratelimit" THEN "ratelimit_sleep" ELSE "backoff_sleep"]
    /\ is_global' = [is_global EXCEPT ![t] = h.glob]
    /\ global_over' = IF h.glob THEN FALSE ELSE global_over
    /\ sleeps' = Slept(t, h.dur)
    /\ UNCHANGED <<locked, waiters, ready, token, op, stage, bucket,
                   tries, outcome, old_token, new_token, token_before, trace, attempts,
                   stalled, used>>

\* The HTTP request of task t is answered by response r.
Respond(t, r) ==
    /\ pc[t] = "http"
    /\ UNCHANGED <<msgvars, flagvars>>
    /\ log' = Logged(t, r)
    /\ LET h == HandleResponse(r, tries[t])
           d == json_or_text(r)
           L == MaybeUnlockExit(bucket[t], h.kind)
       IN IF h.do = "sleep"
          THEN /\ status' = [status EXCEPT ![t] = r.status]
               /\ data' = [data EXCEPT ![t] = d]
               /\ Sleep(t, h)
          ELSE /\ Ended(t, h.kind, r.status, d, L, waiters, stalled)
               /\ ready' = ready \cup Woken(L, bucket[t])
               /\ UNCHANGED <<global_over, op, new_token, token_before, trace, sleeps>>

\* The HTTP request of task t fails with the OSError e.
Fail(t, e) ==
    /\ pc[t] = "http"
    /\ UNCHANGED <<msgvars, flagvars>>
    /\ log' = Logged(t, e)
    /\ LET h == HandleOSError(e, tries[t])
           L == MaybeUnlockExit(bucket[t], h.kind)
       IN IF h.do = "sleep"
          THEN /\ UNCHANGED <<status, data>>
               /\ Sleep(t, h)
          ELSE /\ Ended(t, h.kind, None, [kind |-> "errno", body |-> e.errno],
                        L, waiters, stalled)
               /\ ready' = ready \cup Woken(L, bucket[t])
               /\ UNCHANGED <<global_over, op, new_token, token_before, trace, sleeps>>

\* A sleep of task t is over: the gate is reopened if the task closed it, and
\* the loop goes to its next iteration or runs out.
SleepDone(t) ==
    /\ pc[t] \in {"ratelimit_sleep", "backoff_sleep"}
    /\ UNCHANGED <<msgvars, flagvars>>
    /\ LET reopen == pc[t] = "ratelimit_sleep" /\ ReopensGate(t)
           gate == IF reopen THEN {u \in Tasks : pc[u] = "gate_wait"} ELSE {}
           L == MaybeUnlockExit(bucket[t], Exhausted(status[t]))
       IN /\ global_over' = IF reopen THEN TRUE ELSE global_over
          /\ IF tries[t] + 1 < MaxTries
             THEN /\ tries' = [tries EXCEPT ![t] = @ + 1]
                  /\ pc' = [pc EXCEPT ![t] = "http"]
                  /\ is_global' = [is_global EXCEPT ![t] = FALSE]
                  /\ attempts' = Issued(t)
                  /\ ready' = ready \cup gate
                  /\ stalled' = IF reopen THEN {} ELSE stalled
                  /\ UNCHANGED <<locked, waiters, token, stage, bucket,
                                 status, data, outcome, old_token, used>>
             ELSE /\ Ended(t, Exhausted(status[t]), status[t], data[t], L, waiters,
                           IF reopen THEN {} ELSE stalled)
                  /\ ready' = ready \cup gate \cup Woken(L, bucket[t])
    /\ UNCHANGED <<op, new_token, token_before, trace, sleeps, log>>

\* The task is cancelled where it is suspended: CancelledError is raised at
\* that await and unwinds the call.
Cancel(t) ==
    /\ pc[t] \in {"gate_wait", "lock_wait"} \/ InLoop(t)
    /\ UNCHANGED <<msgvars, flagvars>>
    /\ LET b == bucket[t]
           W == IF pc[t] = "lock_wait"
                THEN [waiters EXCEPT ![b] = Remove(@, t)] ELSE waiters
           L == IF InLoop(t) THEN MaybeUnlockExit(b, "CancelledError") ELSE locked
       IN /\ Ended(t, "CancelledError", None, NoData, L, W, stalled)
          /\ ready' = (ready \ {t}) \cup
                (IF pc[t] = "gate_wait" \/ L[b] THEN {} ELSE WakeFirst(W[b]))
    /\ UNCHANGED <<global_over, op, new_token, token_before, trace, sleeps, log>>

\* A task calls static_login with the token tok.
StaticLogin(t, tok) ==
    /\ pc[t] = "idle"
    /\ UNCHANGED <<msgvars, flagvars>>
    /\ op' = [op EXCEPT ![t] = "static_login"]
    /\ stage' = [stage EXCEPT ![t] = 1]
    /\ new_token' = [new_token EXCEPT ![t] = tok]
    /\ Begin(t, BucketApiInfo, locked, waiters, stalled)
    /\ UNCHANGED <<global_over, ready, token, outcome, old_token, trace,
                   sleeps, log>>
    /\ token_before' = [token_before EXCEPT ![t] = token]

\* ---------------------------------------------------------------- messages
\* The bucket of Route("POST", "/channels/{channel_id}/messages").
BucketMessages == 1

\* An optional argument or payload key: not there, or there with a value;
\* the value 0 is one that is there and falsy ("" or {}).
Absent == [has |-> FALSE, item |-> 0]
Some(x) == [has |-> TRUE, item |-> x]
\* An optional list.
AbsentList == [has |-> FALSE, items |-> <<>>]
Present(q) == [has |-> TRUE, items |-> q]

\* if x: for an optional value and for an optional list
Truthy(x) == x.has /\ x.item # 0
TruthyList(x) == x.has /\ x.items # <<>>

MaxList == 2
\* The ids the file server answers, each once.
Ids == 1..(MaxList + 1)
\* The singular arguments are the item 1, the lists hold the items 2, 3, ...
ListOf(n) == [i \in 1..n |-> i + 1]
Lists == {AbsentList} \cup {Present(ListOf(n)) : n \in 0..MaxList}

\* The keyword arguments of send_message.
SendArgs ==
    [kind : {"send_message"},
     content : {Absent, Some(0), Some(1)},
     embed : {Absent, Some(1)},
     embeds : Lists,
     attachment : {Absent, Some(1)},
     attachments : Lists,
     replie : {Absent, Some(0), Some(1)},
     replies : Lists,
     masquerade : {Absent, Some(1)}]

\* payload: dict[str, Any] = {}
EmptyPayload ==
    [content |-> Absent, embeds |-> AbsentList, attachments |-> AbsentList,
     replies |-> AbsentList, masquerade |-> Absent]

\* if content: payload["content"] = content
WithContent(p, a) ==
    IF Truthy(a.content) THEN [p EXCEPT !.content = a.content] ELSE p

\* The single embed put last, over the list
SingularWins(p, a) ==
    LET p1 == IF TruthyList(a.embeds) THEN [p EXCEPT !.embeds = a.embeds] ELSE p
    IN IF Truthy(a.embed) THEN [p1 EXCEPT !.embeds = Present(<<a.embed.item>>)] ELSE p1

\* if embed: payload["embeds"] = [embed]; if embeds: payload["embeds"] = embeds
WithEmbeds(p, a) ==
    LET p1 == IF Truthy(a.embed) THEN [p EXCEPT !.embeds = Present(<<a.embed.item>>)] ELSE p
    IN IF TruthyList(a.embeds) THEN [p1 EXCEPT !.embeds = a.embeds] ELSE p1

\* if replie: payload["replies"] = [replie]; if replies: payload["replies"] = replies
WithReplies(p, a) ==
    LET p1 == IF Truthy(a.replie) THEN [p EXCEPT !.replies = Present(<<a.replie.item>>)] ELSE p
    IN IF TruthyList(a.replies) THEN [p1 EXCEPT !.replies = a.replies] ELSE p1

\* if masquerade: payload["masquerade"] = masquerade
WithMasquerade(p, a) ==
    IF Truthy(a.masquerade) THEN [p EXCEPT !.masquerade = a.masquerade] ELSE p

\* upload_file, after the response r to its POST: what it raises or returns.
upload_result(r) ==
    LET d == json_or_text(r) IN
    IF r.status = 400
    THEN [do |-> "raise", kind |-> "HTTPException", data |-> d]
    ELSE IF 500 <= r.status /\ r.status <= 600
    THEN [do |-> "raise", kind |-> "RevoltServerError", data |-> d]
    ELSE [do |-> "return", kind |-> "returned", data |-> d]

\* The responses of the file server: any status, a JSON or a text body that
\* carries an id not answered before.
UploadStatuses == {200, 201, 304, 400, 403, 404, 429, 499, 500, 502, 503, 599, 600, 601}
UploadResponses ==
    {Response(st, TRUE, c, "absent", 0, id) :
        st \in UploadStatuses, c \in {Json, "text/html"}, id \in Ids}
\* Those followed within send_message.
SendUploadResponses ==
    {Response(st, TRUE, Json, "absent", 0, id) : st \in {200, 400}, id \in Ids}
        \cup {Response(200, TRUE, "text/html", "absent", 0, 1)}

\* The file an upload_file in flight is posting.
Posting ==
    IF args.kind = "upload_file" THEN args.file
    ELSE IF ~attachment_ids.has THEN args.attachment.item
    ELSE args.attachments.items[Len(attachment_ids.items) + 1]

\* What the dispatcher's part of the state is left as by a step that does not
\* enter request.
NoRequest ==
    UNCHANGED <<bucket, used, tries, status, data, is_global, stalled, locked,
                waiters, attempts>>

\* send_message calls upload_file, which posts the file and is suspended.
Upload(t, p, ids) ==
    /\ pc' = [pc EXCEPT ![t] = "post"]
    /\ payload' = p
    /\ attachment_ids' = ids
    /\ NoRequest

\* send_message from `if replie:` on: the payload is completed and request
\* is called with it.
Dispatch(t, a, p, ids) ==
    /\ payload' = WithMasquerade(WithReplies(p, a), a)
    /\ attachment_ids' = ids
    /\ Begin(t, BucketMessages, locked, waiters, stalled)

\* send_message from `if attachments:` on.
ListLoop(t, a, p) ==
    IF TruthyList(a.attachments)
    THEN Upload(t, p, Present(<<>>))
    ELSE Dispatch(t, a, p, AbsentList)

\* A task calls send_message, with any arguments a.
SendMessage(t) ==
    /\ pc[t] = "idle" /\ args = NoArgs
    /\ op' = [op EXCEPT ![t] = "send_message"]
    /\ \E a \in SendArgs :
        /\ args' = a
        /\ LET p == WithEmbeds(WithContent(EmptyPayload, a), a) IN
            IF Truthy(a.attachment)
            THEN Upload(t, p, AbsentList)
            ELSE ListLoop(t, a, p)
    /\ UNCHANGED <<global_over, ready, token, stage, outcome, old_token,
                   new_token, token_before, trace, sleeps, log, uploads, flagvars>>

\* A task calls upload_file with the file f: the file is posted.
UploadFile(t, f) ==
    /\ pc[t] = "idle" /\ args = NoArgs
    /\ op' = [op EXCEPT ![t] = "upload_file"]
    /\ args' = [kind |-> "upload_file", file |-> f]
    /\ pc' = [pc EXCEPT ![t] = "post"]
    /\ NoRequest
    /\ UNCHANGED <<global_over, ready, token, stage, outcome, old_token,
                   new_token, token_before, trace, sleeps, log, payload,
                   attachment_ids, uploads, flagvars>>

\* The POST of an upload_file is answered by r, with an id not answered
\* before: upload_file returns or raises and, in a send_message, the id is
\* put in the payload and the next file is posted or the message dispatched.
Posted(t, r) ==
    /\ pc[t] = "post"
    /\ \A i \in 1..Len(uploads) : uploads[i].id # r.body
    /\ uploads' = Append(uploads, [file |-> Posting, status |-> r.status, id |-> r.body])
    /\ LET u == upload_result(r) IN
        IF u.do = "raise" \/ op[t] = "upload_file"
        THEN /\ Ended(t, u.kind, r.status, u.data, locked, waiters, stalled)
             /\ UNCHANGED <<payload, attachment_ids>>
        ELSE IF u.data.kind = "str"
        THEN \* data["id"] of a str
             /\ Ended(t, "TypeError", r.status, u.data, locked, waiters, stalled)
             /\ UNCHANGED <<payload, attachment_ids>>
        ELSE /\ IF ~attachment_ids.has
                THEN ListLoop(t, args, [payload EXCEPT !.attachments = Present(<<u.data.body>>)])
                ELSE LET ids == Append(attachment_ids.items, u.data.body) IN
                     IF Len(ids) < Len(args.attachments.items)
                     THEN Upload(t, payload, Present(ids))
                     ELSE Dispatch(t, args,
                                   [payload EXCEPT !.attachments = Present(ids)],
                                   Present(ids))
             /\ UNCHANGED <<token, outcome, stage, old_token>>
    /\ UNCHANGED <<global_over, ready, op, new_token, token_before, trace,
                   sleeps, log, args, flagvars>>

\* -------------------------------------------------------------------- flags
\* Python's & | and & ~ on the non-negative integers that back a flag set.
RECURSIVE BitAnd(_, _)
BitAnd(a, b) ==
    IF a = 0 \/ b = 0 THEN 0
    ELSE (a % 2) * (b % 2) + 2 * BitAnd(a \div 2, b \div 2)

RECURSIVE BitOr(_, _)
BitOr(a, b) ==
    IF a = 0 THEN b
    ELSE IF b = 0 THEN a
    ELSE (IF a % 2 = 1 \/ b % 2 = 1 THEN 1 ELSE 0) + 2 * BitOr(a \div 2, b \div 2)

RECURSIVE BitAndNot(_, _)
BitAndNot(a, b) ==
    IF a = 0 THEN 0
    ELSE (a % 2) * (1 - (b % 2)) + 2 * BitAndNot(a \div 2, b \div 2)

RECURSIVE bit_length(_)
bit_length(n) == IF n = 0 THEN 0 ELSE 1 + bit_length(n \div 2)

\* class UserBadges: the names of its flag_value members, as declared.
DeclaredNames ==
    <<"developer", "translator", "supporter", "responsible_disclosure",
      "founder", "platform_moderation", "active_supporter", "paw",
      "early_adopter", "reserved_relevant_joke_badge_1">>

\* founder declared with the bit of responsible_disclosure
SharedBit ==
    [developer |-> 2^0, translator |-> 2^1, supporter |-> 2^2,
     responsible_disclosure |-> 2^3, founder |-> 2^3,
     platform_moderation |-> 2^5, active_supporter |-> 2^6, paw |-> 2^7,
     early_adopter |-> 2^8, reserved_relevant_joke_badge_1 |-> 2^9]

\* fill_with_flags: cls.VALID_FLAGS, name: value.flag for the members that
\* are flag_values; UserBadges returns 1 << 0 ... 1 << 9.
VALID_FLAGS ==
    [developer |-> 2^0, translator |-> 2^1, supporter |-> 2^2,
     responsible_disclosure |-> 2^3, founder |-> 2^4,
     platform_moderation |-> 2^5, active_supporter |-> 2^6, paw |-> 2^7,
     early_adopter |-> 2^8, reserved_relevant_joke_badge_1 |-> 2^9]

\* fill_with_flags: cls.DEFAULT_VALUE
DEFAULT_VALUE(inv) ==
    IF inv
    THEN LET top == CHOOSE n \in DOMAIN VALID_FLAGS :
                        \A m \in DOMAIN VALID_FLAGS : VALID_FLAGS[m] <= VALID_FLAGS[n]
             max_bits == bit_length(VALID_FLAGS[top])
         IN -1 + (2 ^ max_bits)
    ELSE 0

TypeError(m) == [kind |-> "TypeError", msg |-> m]

\* BaseFlags._has_flag
_has_flag(v, o) == BitAnd(v, o) = o

\* self.value &= o, the complement forgotten
ClearKeepsOnlyFlag(v, o, toggle) ==
    IF toggle = "True" THEN [value |-> BitOr(v, o), error |-> NoError]
    ELSE IF toggle = "False" THEN [value |-> BitAnd(v, o), error |-> NoError]
    ELSE [value |-> v, error |-> TypeError("must be a bool")]

\* BaseFlags._set_flag on the backing integer v: the new backing integer and
\* the exception raised. toggle is "True", "False" or something that is
\* neither object ("1", the integer 1, equal to True but not True).
_set_flag(v, o, toggle) ==
    IF toggle = "True" THEN [value |-> BitOr(v, o), error |-> NoError]
    ELSE IF toggle = "False" THEN [value |-> BitAndNot(v, o), error |-> NoError]
    ELSE [value |-> v, error |-> TypeError("must be a bool")]

\* A constructor that skips the keywords it does not know
RECURSIVE SkipsUnknownNames(_, _)
SkipsUnknownNames(kw, v) ==
    IF kw = <<>> THEN [value |-> v, error |-> NoError]
    ELSE IF Head(kw).name \notin DOMAIN VALID_FLAGS
    THEN SkipsUnknownNames(Tail(kw), v)
    ELSE LET r == _set_flag(v, VALID_FLAGS[Head(kw).name], Head(kw).value) IN
         IF r.error # NoError
         THEN [value |-> NoInstance, error |-> r.error]
         ELSE SkipsUnknownNames(Tail(kw), r.value)

\* BaseFlags.__init__, from the keywords kw on with self.value being v: the
\* backing integer of the instance, or NoInstance and the exception raised.
\* setattr(self, key, value) goes through flag_value.__set__ to _set_flag.
RECURSIVE BaseFlags_init(_, _)
BaseFlags_init(kw, v) ==
    IF kw = <<>> THEN [value |-> v, error |-> NoError]
    ELSE IF Head(kw).name \notin DOMAIN VALID_FLAGS
    THEN [value |-> NoInstance, error |-> TypeError("is not a valid flag name")]
    ELSE LET r == _set_flag(v, VALID_FLAGS[Head(kw).name], Head(kw).value) IN
         IF r.error # NoError
         THEN [value |-> NoInstance, error |-> r.error]
         ELSE BaseFlags_init(Tail(kw), r.value)

\* BaseFlags.__eq__ of two instances of the class, and __hash__: hash(int) is
\* the integer itself below 2^61 - 1.
BaseFlags_eq(v, w) == v = w
BaseFlags_hash(v) == v

\* BaseFlags.__iter__: (name, is set) for every flag_value of the class
\* __dict__, which keeps the order of declaration.
BaseFlags_iter(v) ==
    [i \in 1..Len(DeclaredNames) |->
        <<DeclaredNames[i], _has_flag(v, VALID_FLAGS[DeclaredNames[i]])>>]

\* Keyword arguments: names, declared or not ("admin"), each at most once, in
\* the order of the call.
MaxKwargs == 2
Toggles == {"True", "False", "1"}
Names == DOMAIN VALID_FLAGS \cup {"admin"}
Kwarg == [name : Names, value : Toggles]
KwargsOf(n) ==
    {q \in [1..n -> Kwarg] : \A i, j \in 1..n : i < j => q[i].name # q[j].name}
AllKwargs == UNION {KwargsOf(n) : n \in 0..MaxKwargs}
\* The same keywords as q, in every order.
Reordered(q) ==
    {[i \in 1..Len(q) |-> q[p[i]]] : p \in Permutations(1..Len(q))}

\* x = UserBadges(**kw), for any keywords kw: the first flag set is
\* constructed, or the constructor raises.
New ==
    /\ value = NoInstance /\ error = NoError
    /\ \E kw \in AllKwargs :
        LET r == BaseFlags_init(kw, DEFAULT_VALUE(inverted)) IN
        /\ value' = r.value
        /\ error' = r.error
        /\ kwargs' = kw
    /\ UNCHANGED <<inverted, other, other_kwargs, written, reqvars, msgvars>>

\* y = UserBadges(**kw): a second flag set is constructed from the keywords
\* of the first, given in any order.
NewOther(kw) ==
    /\ value # NoInstance /\ other = NoInstance /\ written = NoWrite
    /\ kw \in Reordered(kwargs)
    /\ other' = BaseFlags_init(kw, DEFAULT_VALUE(inverted)).value
    /\ other_kwargs' = kw
    /\ UNCHANGED <<inverted, value, error, kwargs, written, reqvars, msgvars>>

\* x.name = toggle, for a declared name: flag_value.__set__.
Write(name, toggle) ==
    /\ value # NoInstance /\ other = NoInstance
    /\ LET r == _set_flag(value, VALID_FLAGS[name], toggle) IN
        /\ value' = r.value
        /\ error' = r.error
    /\ written' = [name |-> name, toggle |-> toggle, before |-> value]
    /\ kwargs' = <<>>
    /\ UNCHANGED <<inverted, other, other_kwargs, reqvars, msgvars>>

\* --------------------------------------------------------- specifications
\* Several dispatches, on the same and on different buckets, run concurrently.
Init == InitWith(FALSE) /\ token = None /\ NoMessages /\ NoFlags

Next ==
    \/ \E t \in Tasks, b \in Buckets : Request(t, b)
    \/ \E t \in Tasks : GateWake(t)
    \/ \E t \in Tasks : LockWake(t)
    \/ \E t \in Tasks, r \in ConcResponses : Respond(t, r)
    \/ \E t \in Tasks : Fail(t, ConnError(111))
    \/ \E t \in Tasks : SleepDone(t)
    \/ \E t \in Tasks : Cancel(t)

Spec == Init /\ [][Next]_vars

\* The same dispatches under fair scheduling and a service that always
\* answers: the event loop runs every task whose future has its result, every
\* sleep ends, and every HTTP request gets a response.  Nothing obliges a
\* caller to call request or to cancel a task.
Fairness ==
    \A t \in Tasks :
        /\ WF_vars(GateWake(t))
        /\ WF_vars(LockWake(t))
        /\ WF_vars(SleepDone(t))
        /\ WF_vars(\E r \in ConcResponses : Respond(t, r))

SpecLive == Init /\ [][Next]_vars /\ Fairness

\* One dispatch, followed attempt by attempt with its logs recorded, under
\* every response and connection error.
InitRetry == InitWith(TRUE) /\ token = None /\ NoMessages /\ NoFlags

NextRetry ==
    \/ Request(1, 1)
    \/ \E r \in AllResponses : Respond(1, r)
    \/ \E e \in ConnErrors : Fail(1, e)
    \/ SleepDone(1)

SpecRetry == InitRetry /\ [][NextRetry]_vars

\* One static_login, with or without a token installed before it.
InitLogin == InitWith(FALSE) /\ NoMessages /\ NoFlags

NextLogin ==
    \/ \E tok \in Tokens : StaticLogin(1, tok)
    \/ \E r \in LoginResponses : Respond(1, r)
    \/ \E e \in ConnErrors : Fail(1, e)
    \/ SleepDone(1)
    \/ Cancel(1)

SpecLogin == InitLogin /\ [][NextLogin]_vars

\* One send_message, with every combination of its arguments.
SendResponses == {Response(st, TRUE, Json, "absent", 0, 1) : st \in {200, 404}}

InitSend == InitWith(FALSE) /\ token = None /\ NoMessages /\ NoFlags

NextSend ==
    \/ SendMessage(1)
    \/ \E r \in SendUploadResponses : Posted(1, r)
    \/ \E r \in SendResponses : Respond(1, r)

SpecSend == InitSend /\ [][NextSend]_vars

\* One upload_file, while a dispatch runs that may close the gate.
InitUpload == InitWith(FALSE) /\ token = None /\ NoMessages /\ NoFlags

NextUpload ==
    \/ Request(1, 1)
    \/ \E r \in ConcResponses : Respond(1, r)
    \/ SleepDone(1)
    \/ \E f \in 1..2 : UploadFile(2, f)
    \/ \E r \in UploadResponses : Posted(2, r)

SpecUpload == InitUpload /\ [][NextUpload]_vars

\* A flag set, inverted or not, is constructed and its flags are written.
InitFlags ==
    /\ InitWith(FALSE) /\ token = None /\ NoMessages
    /\ inverted \in BOOLEAN
    /\ value = NoInstance
    /\ other = NoInstance
    /\ error = NoError
    /\ kwargs = <<>>
    /\ other_kwargs = <<>>
    /\ written = NoWrite

NextFlags ==
    \/ New
    \/ \E kw \in Reordered(kwargs) : NewOther(kw)
    \/ \E name \in DOMAIN VALID_FLAGS, toggle \in Toggles : Write(name, toggle)

SpecFlags == InitFlags /\ [][NextFlags]_vars

\* ------------------------------------------------------------------ claims
RunningOn(b) == {t \in Tasks : InLoop(t) /\ bucket[t] = b}

\* C1: at most one dispatch per bucket is inside the retry loop (holding the
\* bucket lock, in its HTTP call or in a sleep); no other dispatch of that
\* bucket has an HTTP request in flight.
C1_OneDispatchPerBucket == \A b \in Buckets : Cardinality(RunningOn(b)) <= 1

\* C1 happens: one dispatch is in the loop and another waits for the same lock.
C1_Witness ==
    \E t, u \in Tasks :
        /\ pc[t] = "http"
        /\ pc[u] = "lock_wait"
        /\ bucket[u] = bucket[t]

\* C2: while the gate is closed no dispatch, on any bucket, issues an HTTP
\* request: every step in which a task issues one leaves the gate open.
C2_AllStallWhileClosed ==
    [][\A t \in Tasks : (pc[t] # "http" /\ pc'[t] = "http") => global_over']_vars

\* C3: whatever way a dispatch leaves the with block, the bucket lock is
\* released: a lock is only locked while a dispatch of its bucket is in the
\* loop, and whoever waits for a lock waits behind its holder or behind a
\* waiter that has been handed the lock.
C3_LockReleasedOnExit ==
    \A b \in Buckets :
        /\ locked[b] => RunningOn(b) # {}
        /\ (\E t \in Tasks : pc[t] = "lock_wait" /\ bucket[t] = b)
            => \/ locked[b]
               \/ \E u \in ready : pc[u] = "lock_wait" /\ bucket[u] = b

\* C3 happens: the holder was cancelled (no other task has started), the
\* lock is free and the dispatch that waited for it has been handed it.
C3_Witness ==
    \E t, u \in Tasks :
        /\ outcome[t].kind = "CancelledError"
        /\ pc[u] = "lock_wait" /\ u \in ready /\ ~locked[bucket[u]]
        /\ \A v \in Tasks \ {t, u} : pc[v] = "idle"

\* C5: the gate starts open, and a dispatch whose sleep for a global 429
\* completes (it is not cancelled in it) leaves the gate open by the time it
\* goes on.
C5_GateReopened ==
    /\ global_over = TRUE
    /\ [][\A t \in Tasks :
            (/\ pc[t] = "ratelimit_sleep" /\ is_global[t]
             /\ pc'[t] # "ratelimit_sleep"
             /\ outcome'[t].kind # "CancelledError") => global_over']_vars

\* C5 happens: a dispatch that waited on the gate has been woken by the
\* gate's reopening, and the dispatch that slept has gone on.
C5_Witness ==
    \E t, u \in Tasks :
        /\ pc[t] = "http" /\ tries[t] > 0 /\ status[t] = 429
        /\ pc[u] = "gate_wait" /\ u \in ready
        /\ global_over

\* C6: a dispatch that started while the gate was closed has neither issued
\* an HTTP request nor returned or raised as long as the gate has not been
\* reopened.
C6_StalledUntilReopened ==
    \A t \in stalled :
        \/ pc[t] = "gate_wait"
        \/ pc[t] = "done" /\ outcome[t].kind = "CancelledError"

\* C6 happens: a dispatch sleeps for a global 429 and one for another bucket,
\* started meanwhile, waits on the gate.
C6_Witness ==
    \E t, u \in Tasks :
        /\ pc[t] = "ratelimit_sleep" /\ is_global[t]
        /\ u \in stalled /\ pc[u] = "gate_wait" /\ bucket[u] # bucket[t]

Last(q) == q[Len(q)]
Ok(r) == r.status \in 200..299

\* C4: five answers from {500, 502, 504} in a row end in RevoltServerError
\* after 5 HTTP requests and 4 sleeps, of 1, 3, 5 and 7 seconds.
C4_FourSleeps ==
    LET l == log[1] IN
    (Len(l) = 5 /\ \A i \in 1..5 : l[i].status \in {500, 502, 504})
        => /\ attempts[1] = 5
           /\ Len(sleeps[1]) <= 4
           /\ pc[1] = "done" =>
                /\ outcome[1].kind = "RevoltServerError"
                /\ sleeps[1] = <<1, 3, 5, 7>>

NonGlobal429(r) == r.status = 429 /\ r.via /\ r.ctype = Json /\ r.glob # "true"

\* C7: a 429 with the Via header and a JSON body whose global is false or
\* missing, then a 2xx: the dispatch sleeps once, for retry_after, and returns
\* the body of the second response after 2 HTTP requests; the gate is open in
\* every state of it.
C7_BucketRateLimit ==
    LET l == log[1] IN
    (Len(l) >= 1 /\ NonGlobal429(l[1]) /\ (Len(l) >= 2 => Ok(l[2])))
        => /\ global_over
           /\ Len(l) <= 2
           /\ sleeps[1] = <<l[1].retry_after>>
           /\ Len(l) = 2 =>
                /\ pc[1] = "done"
                /\ outcome[1].kind = "returned"
                /\ outcome[1].value.body = l[2].body
                /\ attempts[1] = 2

\* C7 happens: the body of the 429 had no global key, and the dispatch has
\* returned the second body.
C7_Witness ==
    LET l == log[1] IN
    /\ Len(l) = 2 /\ NonGlobal429(l[1]) /\ l[1].glob = "absent"
    /\ l[1].retry_after = 4
    /\ Ok(l[2]) /\ l[2].body = 2
    /\ pc[1] = "done"

\* C8: a 429 without the Via header, or whose body is text, raises
\* HTTPException on the attempt that received it: no sleep follows, no other
\* attempt, and the gate stays as it was (open).
C8_ProxyBlockRaises ==
    LET l == log[1] IN
    (/\ Len(l) >= 1 /\ Last(l).status = 429
     /\ (~Last(l).via \/ Last(l).ctype # Json))
        => /\ pc[1] = "done"
           /\ outcome[1].kind = "HTTPException"
           /\ outcome[1].status = 429
           /\ attempts[1] = Len(l)
           /\ Len(sleeps[1]) = Len(l) - 1
           /\ global_over

\* C8 happens: after one retry, a 429 with a JSON body and a global key, but
\* without the Via header.
C8_Witness ==
    LET l == log[1] IN
    /\ Len(l) = 2 /\ Last(l).status = 429
    /\ ~Last(l).via /\ Last(l).ctype = Json /\ Last(l).glob = "true"
    /\ pc[1] = "done"

ExpectedKind(s) ==
    IF s = 403 THEN "Forbidden"
    ELSE IF s = 404 THEN "NotFound"
    ELSE IF s >= 500 THEN "RevoltServerError"
    ELSE "HTTPException"

\* C9: a status outside 2xx that is neither 429 nor 500, 502, 504 raises on
\* the attempt that received it, with no sleep and no other attempt: 403
\* Forbidden, 404 NotFound, 500 and above RevoltServerError, anything else
\* HTTPException; a 2xx returns the decoded body at once.
C9_ImmediateOutcome ==
    LET l == log[1] IN
    (Len(l) >= 1 /\ Last(l).status # None /\ Last(l).status # 429
     /\ Last(l).status \notin {500, 502, 504})
        => /\ pc[1] = "done"
           /\ attempts[1] = Len(l)
           /\ Len(sleeps[1]) = Len(l) - 1
           /\ outcome[1].status = Last(l).status
           /\ IF Ok(Last(l))
              THEN /\ outcome[1].kind = "returned"
                   /\ outcome[1].value.body = Last(l).body
                   /\ outcome[1].value.kind =
                        IF Last(l).ctype = Json THEN "dict" ELSE "str"
              ELSE outcome[1].kind = ExpectedKind(Last(l).status)

\* C9 happens: a 503 on the third attempt.
C9_Witness ==
    LET l == log[1] IN
    /\ Len(l) = 3 /\ Last(l).status = 503
    /\ outcome[1].kind = "RevoltServerError"

\* C10: a 401 to GET /users/@me makes static_login raise LoginFailure (caused
\* by the HTTPException of that 401) and leaves installed the token that was
\* installed before the call.
C10_LoginFailureRestores ==
    \A t \in Tasks :
        (/\ op[t] = "static_login" /\ pc[t] = "done"
         /\ stage[t] = 2 /\ outcome[t].status = 401)
            => /\ outcome[t].kind = "LoginFailure"
               /\ token = token_before[t]

\* C10 happens: the login with token 2 failed and token 1 is installed again.
C10_Witness ==
    /\ pc[1] = "done" /\ outcome[1].kind = "LoginFailure"
    /\ token_before[1] = 1 /\ new_token[1] = 2 /\ token = 1

LoginChecked(t) ==
    /\ op[t] = "static_login" /\ pc[t] = "done" /\ stage[t] = 2
    /\ outcome[t].kind \notin {"returned", "LoginFailure"}

C12_FifoPerBucket ==
    [][\A t \in Tasks :
        (~InLoop(t) /\ pc'[t] = "http") =>
            LET b == bucket'[t] IN
            /\ RunningOn(b) = {}
            /\ waiters[b] = <<>> \/ Head(waiters[b]) = t]_vars

\* C12 happens: two dispatches queued for a held lock one after the other, the
\* holder has left and the lock has been handed to the older of the two.
C12_Witness ==
    \E b \in Buckets :
        /\ Len(waiters[b]) = 2
        /\ Head(waiters[b]) \in ready
        /\ ~locked[b]
        /\ RunningOn(b) = {}

\* What is wrong with the keywords q, if anything: the first keyword that
\* either has an undeclared name ("name") or, its name being declared, a
\* value that is not a boolean ("value").
RECURSIVE Offence(_)
Offence(q) ==
    IF q = <<>> THEN "none"
    ELSE IF Head(q).name \notin {DeclaredNames[i] : i \in 1..Len(DeclaredNames)}
    THEN "name"
    ELSE IF Head(q).value \notin {"True", "False"} THEN "value"
    ELSE Offence(Tail(q))

\* C13 as stated: a constructor given an undeclared name raises an
\* invalid-argument error, one given a non-boolean value raises a type
\* error, a different kind of error; no instance is produced.
C13_DistinctErrorKinds ==
    /\ Offence(kwargs) = "name" =>
            value = NoInstance /\ error.kind \notin {"none", "TypeError"}
    /\ Offence(kwargs) = "value" =>
            value = NoInstance /\ error.kind = "TypeError"

\* C13 amended: both failures raise TypeError, told apart by their message
\* only; no instance is produced; keywords with neither fault produce one.
C13_BothTypeError ==
    /\ Offence(kwargs) = "name" =>
            /\ value = NoInstance
            /\ error = [kind |-> "TypeError", msg |-> "is not a valid flag name"]
    /\ Offence(kwargs) = "value" =>
            /\ value = NoInstance
            /\ error = [kind |-> "TypeError", msg |-> "must be a bool"]
    /\ (Offence(kwargs) = "none" /\ kwargs # <<>>) =>
            value # NoInstance /\ error = NoError

\* C13 happens: a declared flag was given first, then an undeclared name.
C13_Witness ==
    /\ Len(kwargs) = 2
    /\ kwargs[1] = [name |-> "paw", value |-> "True"]
    /\ kwargs[2].name = "admin"
    /\ value = NoInstance /\ error.kind = "TypeError"

\* The positions, in the order of declaration, of the names given as True.
GivenTrue(q) ==
    {i \in 1..10 : \E k \in 1..Len(q) :
        q[k] = [name |-> DeclaredNames[i], value |-> "True"]}

RECURSIVE OrOfBits(_)
OrOfBits(S) ==
    IF S = {} THEN 0
    ELSE LET i == CHOOSE x \in S : TRUE IN 2^(i - 1) + OrOfBits(S \ {i})

\* C14: a UserBadges constructed from keywords has as backing integer the OR
\* of 1 << position of the names given as True; iterating it yields the ten
\* declared names once each, in the order of declaration, true for exactly
\* those names; a second instance constructed from the same keywords in
\* another order is equal to it and has the same hash.
C14_ConstructedValue ==
    (value # NoInstance /\ written = NoWrite /\ ~inverted) =>
        /\ value = OrOfBits(GivenTrue(kwargs))
        /\ Len(BaseFlags_iter(value)) = 10
        /\ \A i \in 1..10 :
              BaseFlags_iter(value)[i] = <<DeclaredNames[i], i \in GivenTrue(kwargs)>>
        /\ other # NoInstance =>
              /\ BaseFlags_eq(value, other)
              /\ BaseFlags_hash(value) = BaseFlags_hash(other)

\* C14 happens: developer=True, founder=True and founder=True, developer=True.
C14_Witness ==
    /\ ~inverted
    /\ kwargs = <<[name |-> "developer", value |-> "True"],
                  [name |-> "founder", value |-> "True"]>>
    /\ other_kwargs = <<[name |-> "founder", value |-> "True"],
                        [name |-> "developer", value |-> "True"]>>
    /\ value = 17 /\ other = 17

\* C20: after a declared flag has been written with True or False it reads
\* as written, every other declared flag reads as it did before, and writing
\* the same again changes nothing; a write of anything else raises TypeError
\* and leaves the backing integer as it was.
C20_WriteOneFlag ==
    written # NoWrite =>
        LET o == 2^((CHOOSE i \in 1..10 : DeclaredNames[i] = written.name) - 1) IN
        IF written.toggle \in {"True", "False"}
        THEN /\ error = NoError
             /\ _has_flag(value, o) = (written.toggle = "True")
             /\ \A i \in 1..10 :
                    DeclaredNames[i] # written.name =>
                        (_has_flag(value, 2^(i - 1)) = _has_flag(written.before, 2^(i - 1)))
             /\ _set_flag(value, o, written.toggle).value = value
        ELSE /\ error.kind = "TypeError"
             /\ value = written.before

\* C20 happens: founder was cleared in a flag set that had other flags set.
C20_Witness ==
    /\ written = [name |-> "founder", toggle |-> "False", before |-> 1023]
    /\ value = 1007

\* An outcome after which the loop goes on: a 500, 502 or 504, or a 429 that
\* has the Via header and a JSON body.
GoesOn(r) ==
    /\ r.status # None
    /\ \/ r.status \in {500, 502, 504}
       \/ r.status = 429 /\ r.via /\ r.ctype = Json

\* C17: a dispatch issues at most 5 HTTP requests, a 429 that is slept on
\* counting like any other attempt; when the fifth outcome is one after which
\* the loop would go on, the dispatch raises RevoltServerError if that
\* response's status is 500 or more and HTTPException otherwise.
C17_AtMostFiveAttempts ==
    LET l == log[1] IN
    /\ attempts[1] <= 5
    /\ Len(l) <= attempts[1] /\ attempts[1] <= Len(l) + 1
    /\ attempts[1] <= Len(sleeps[1]) + 1
    /\ (Len(l) = 5 /\ GoesOn(l[5]) /\ pc[1] = "done") =>
            /\ outcome[1].status = l[5].status
            /\ outcome[1].kind =
                    IF l[5].status >= 500 THEN "RevoltServerError" ELSE "HTTPException"

\* C17 happens: five 429s with the Via header and a JSON body, and the
\* dispatch has raised HTTPException.
C17_Witness ==
    LET l == log[1] IN
    /\ Len(l) = 5
    /\ \A i \in 1..5 : l[i].status = 429 /\ GoesOn(l[i])
    /\ pc[1] = "done" /\ outcome[1].kind = "HTTPException"
    /\ attempts[1] = 5

\* C18: an OSError with errno 54 or 10054 on attempt index 0..3 is followed
\* by a sleep of 1 + 2 * index and then by another attempt; on index 4, or
\* with any other errno, the OSError is raised on that attempt with no sleep.
C18_ResetRetried ==
    LET l == log[1]
        n == Len(l) - 1
    IN
    /\ \A i \in 1..n :
            l[i].status = None =>
                l[i].errno \in {54, 10054} /\ sleeps[1][i] = 1 + 2 * (i - 1)
    /\ (Len(l) >= 1 /\ Last(l).status = None) =>
            IF Last(l).errno \in {54, 10054} /\ n <= 3
            THEN /\ Len(sleeps[1]) = n + 1
                 /\ sleeps[1][n + 1] = 1 + 2 * n
                 /\ \/ pc[1] = "backoff_sleep" /\ attempts[1] = n + 1
                    \/ pc[1] = "http" /\ attempts[1] = n + 2
            ELSE /\ pc[1] = "done"
                 /\ outcome[1].kind = "OSError"
                 /\ outcome[1].value.body = Last(l).errno
                 /\ attempts[1] = n + 1
                 /\ Len(sleeps[1]) = n

\* C18 happens: a reset on attempt index 3 was retried, and the reset on
\* attempt index 4 was raised.
C18_Witness ==
    LET l == log[1] IN
    /\ Len(l) = 5
    /\ l[4].status = None /\ l[5].status = None /\ l[5].errno = 10054
    /\ sleeps[1][4] = 7
    /\ outcome[1].kind = "OSError"

\* C19: no dispatch ends with the RuntimeError: whenever the loop has run
\* out of iterations a response has been captured.
C19_NoRuntimeError ==
    \A t \in Tasks :
        /\ outcome[t].kind # "RuntimeError"
        /\ (pc[t] \in {"ratelimit_sleep", "backoff_sleep"} /\ tries[t] = MaxTries - 1)
                => status[t] # None

\* C19 happens: four resets, then a 502 on the last iteration, and the loop
\* has run out.
C19_Witness ==
    LET l == log[1] IN
    /\ Len(l) = 5
    /\ \A i \in 1..4 : l[i].status = None
    /\ l[5].status = 502
    /\ pc[1] = "done" /\ outcome[1].kind = "RevoltServerError"

\* The request of a send_message has been issued, carrying the payload.
Carried(t) ==
    /\ op[t] = "send_message"
    /\ \/ pc[t] = "http"
       \/ pc[t] = "done" /\ outcome[t].kind \in {"returned", "NotFound"}

\* The ids answered to the uploads of the files q, the last Len(q) uploads.
IdsOf(q) == [i \in 1..Len(q) |-> uploads[Len(uploads) - Len(q) + i].id]
FilesOf(q) == [i \in 1..Len(q) |-> uploads[Len(uploads) - Len(q) + i].file]

\* C15 as stated: when the singular and the list form of an argument are both
\* supplied the payload carries the list form (embeds and replies as given,
\* attachments as the ids answered to the uploads of the list's files, in
\* order); with the singular form alone it carries a one-element list.
C15_ListFormWins ==
    Carried(1) =>
        /\ (args.embed.has /\ args.embeds.has) => payload.embeds = args.embeds
        /\ (args.embed.has /\ ~args.embeds.has) =>
                payload.embeds = Present(<<args.embed.item>>)
        /\ (args.replie.has /\ args.replies.has) => payload.replies = args.replies
        /\ (args.replie.has /\ ~args.replies.has) =>
                payload.replies = Present(<<args.replie.item>>)
        /\ (args.attachment.has /\ args.attachments.has) =>
                /\ FilesOf(args.attachments.items) = args.attachments.items
                /\ payload.attachments = Present(IdsOf(args.attachments.items))
        /\ (args.attachment.has /\ ~args.attachments.has) =>
                /\ uploads[1].file = args.attachment.item
                /\ payload.attachments = Present(<<uploads[1].id>>)

\* C15 amended: the list form is carried when it is supplied and not empty;
\* a singular form that is truthy is carried as a one-element list when the
\* list form is not supplied or is empty.
C15_NonEmptyListWins ==
    Carried(1) =>
        /\ (Truthy(args.embed) /\ TruthyList(args.embeds)) =>
                payload.embeds = args.embeds
        /\ (Truthy(args.embed) /\ ~TruthyList(args.embeds)) =>
                payload.embeds = Present(<<args.embed.item>>)
        /\ (Truthy(args.replie) /\ TruthyList(args.replies)) =>
                payload.replies = args.replies
        /\ (Truthy(args.replie) /\ ~TruthyList(args.replies)) =>
                payload.replies = Present(<<args.replie.item>>)
        /\ (Truthy(args.attachment) /\ TruthyList(args.attachments)) =>
                /\ FilesOf(args.attachments.items) = args.attachments.items
                /\ payload.attachments = Present(IdsOf(args.attachments.items))
                /\ \A i \in 1..Len(payload.attachments.items) :
                        payload.attachments.items[i] # uploads[1].id
        /\ (Truthy(args.attachment) /\ ~TruthyList(args.attachments)) =>
                /\ uploads[1].file = args.attachment.item
                /\ payload.attachments = Present(<<uploads[1].id>>)

\* C15 happens: all three arguments were given in both forms, the lists with
\* two elements; three files were uploaded and the message has been sent.
C15_Witness ==
    /\ pc[1] = "done" /\ outcome[1].kind = "returned"
    /\ Truthy(args.embed) /\ Truthy(args.replie) /\ Truthy(args.attachment)
    /\ payload.embeds = Present(<<2, 3>>)
    /\ payload.replies = Present(<<2, 3>>)
    /\ Len(uploads) = 3
    /\ payload.attachments = Present(<<uploads[2].id, uploads[3].id>>)
    /\ uploads[3].id = 1

\* C16: upload_file makes one POST and classifies its response: 400 raises
\* HTTPException, 500 to 599 RevoltServerError, any other status returns the
\* decoded body; it takes no bucket lock and does not wait on the gate.
C16_UploadClassified ==
    \A t \in Tasks :
        op[t] = "upload_file" =>
            /\ pc[t] \in {"post", "done"}
            /\ bucket[t] = None /\ t \notin stalled
            /\ Len(uploads) = IF pc[t] = "done" THEN 1 ELSE 0
            /\ pc[t] = "done" =>
                    /\ outcome[t].status = uploads[1].status
                    /\ outcome[t].kind =
                            IF uploads[1].status = 400 THEN "HTTPException"
                            ELSE IF uploads[1].status \in 500..599 THEN "RevoltServerError"
                            ELSE "returned"
                    /\ outcome[t].kind = "returned" =>
                            outcome[t].value.body = uploads[1].id

\* The dispatches asleep for a 429 whose body had global = true.
GlobalSleepers == {t \in Tasks : pc[t] = "ratelimit_sleep" /\ is_global[t]}

\* C21: the gate is closed for the whole of every global rate-limit sleep:
\* whenever some dispatch sleeps for a 429 whose body had global = true, the
\* gate is closed, also when two such sleeps overlap and one ends first.
C21_ClosedWhileGlobalSleep == GlobalSleepers # {} => ~global_over

\* C22: the gate never stays closed forever: whenever it is closed it is
\* eventually reopened, also when the dispatch that closed it is cancelled
\* during its retry_after sleep.
C22_GateEventuallyReopens == ~global_over ~> global_over

====
